---- MODULE Spec2Model ----
(***************************************************************************)
(* Model of the inventory ledger of allocate_medical_product.py: the       *)
(* Database class (one pyodbc connection opened with autocommit=False on a *)
(* SQL Server store) and the App handlers that call it.                    *)
(*                                                                         *)
(* The three tables are the variables hospitals, items and allocations, as *)
(* the connection sees them (its own uncommitted changes included);        *)
(* committed is their content as of the last COMMIT.  Every handler is one *)
(* action, its statements, commit and rollback included.                   *)
(*                                                                         *)
(* Of an items row only price and qty are modelled: item_type, name,       *)
(* diameter and length are payload columns that no statement reads back.   *)
(* A nullable value is <<>> (NULL / None) or <<v>>.  Prices are FLOAT      *)
(* columns; the model draws them from a small range of whole numbers.      *)
(***************************************************************************)
EXTENDS Integers, Sequences, FiniteSets, TLC

VARIABLES
    hospitals,       \* table hospitals: id -> name
    items,           \* table items: id -> [price, qty]
    allocations,     \* table allocations: set of rows
    committed,       \* the three tables as of the last COMMIT
    nextHospitalId,  \* IDENTITY(1,1) of hospitals.id
    nextItemId,      \* IDENTITY(1,1) of items.id
    nextAllocId,     \* IDENTITY(1,1) of allocations.id
    last,            \* the last call and what it reported to its caller
    initial_qty      \* history: the qty of each item before the first allocate

vars == <<hospitals, items, allocations, committed,
          nextHospitalId, nextItemId, nextAllocId, last, initial_qty>>

----------------------------------------------------------------------------
(* Bounds *)

MaxItemId == 2
MaxQty == 2
MaxPrice == 0
MaxAllocId == 1
MaxAddHospital == 1
MaxTime == 1
MaxReportRows == 3
MaxReportTime == 3
MaxSeedings == 1

----------------------------------------------------------------------------
(* Values *)

NULL == <<>>
Some(v) == <<v>>
Val(n) == n[1]

default_hospitals ==
    << "Day hospital", "Bahman hospital", "Saman hospital",
       "Kasra hospital", "Pars hospital", "Baghiatolah hospital" >>

MaxHospitalId == Len(default_hospitals) + MaxAddHospital

ItemIds == 1..MaxItemId
ItemIdArgs == 1..(MaxItemId + 1)
HospitalIdArgs == {1} \cup ((Len(default_hospitals) + 1)..MaxHospitalId)
HospitalNameArgs == {default_hospitals[1], "New hospital"}
QtyArgs == (-1)..MaxQty
AllocQtyArgs == (-1)..(MaxQty + 1)
PriceArgs == {NULL} \cup {Some(p) : p \in 0..MaxPrice}
TimeVals == 1..MaxTime

RECURSIVE SumQty(_)
SumQty(S) ==
    IF S = {} THEN 0
    ELSE LET r == CHOOSE x \in S : TRUE IN r.qty + SumQty(S \ {r})

AllocationsOf(allocs, item_id) == {a \in allocs : a.item_id = item_id}

----------------------------------------------------------------------------
(* The connection: commit and rollback *)

Tables(h, i, a) == [hospitals |-> h, items |-> i, allocations |-> a]

View == Tables(hospitals, items, allocations)

\* conn.commit(): the connection's view becomes the committed content.
commit(work, comm) == work

\* Mutant of rollback: the uncommitted changes stay in the connection's view.
rollback_keeps_work(work, comm) == work

\* conn.rollback(): the connection's view returns to the committed content.
rollback(work, comm) == comm

\* What a handler leaves behind: the view and the committed content.
Leave(work, comm) ==
    /\ hospitals' = work.hospitals
    /\ items' = work.items
    /\ allocations' = work.allocations
    /\ committed' = comm

\* What the caller of the last operation saw: the operation, the item and the
\* quantity it was called with (0 where it takes none), "ok" or the error it
\* raised, and the available amount the error message carries.
Call(op, item_id, qty, result, avail) ==
    [op |-> op, item_id |-> item_id, hospital_id |-> 0, qty |-> qty,
     price |-> NULL, result |-> result, avail |-> avail]

\* The same for allocate, with the hospital and the override price it was given.
CallAllocate(item_id, hospital_id, qty, price_at_alloc, result, avail) ==
    [op |-> "allocate", item_id |-> item_id, hospital_id |-> hospital_id,
     qty |-> qty, price |-> price_at_alloc, result |-> result, avail |-> avail]

\* The same for an operation on a hospital, with the id it was given.
CallHospital(op, hospital_id, result) ==
    [op |-> op, item_id |-> 0, hospital_id |-> hospital_id, qty |-> 0,
     price |-> NULL, result |-> result, avail |-> 0]

----------------------------------------------------------------------------
(* Database.ensure_schema on a store without tables, as Database.__init__ *)
(* runs it: the tables are created and the default hospitals inserted.    *)

ensure_schema ==
    Tables([h \in 1..Len(default_hospitals) |-> default_hospitals[h]],
           <<>>, {})

Init ==
    /\ hospitals = ensure_schema.hospitals
    /\ items = ensure_schema.items
    /\ allocations = ensure_schema.allocations
    /\ committed = ensure_schema
    /\ nextHospitalId = Len(default_hospitals) + 1
    /\ nextItemId = 1
    /\ nextAllocId = 1
    /\ last = Call("init", 0, 0, "ok", 0)
    /\ initial_qty = <<>>

----------------------------------------------------------------------------
(* Hospital operations *)

\* Mutant of name_taken: the column is not declared UNIQUE.
name_taken_never(hs, name) == FALSE

\* UNIQUE(name) of hospitals: the INSERT of an existing name is refused.
name_taken(hs, name) == \E h \in DOMAIN hs : hs[h] = name

\* FOREIGN KEY allocations.hospital_id REFERENCES hospitals(id), no cascade:
\* the DELETE of a referenced hospital is refused.
hospital_referenced(allocs, hid) == \E a \in allocs : a.hospital_id = hid

\* FOREIGN KEY allocations.item_id REFERENCES items(id), no cascade.
item_referenced(allocs, item_id) == \E a \in allocs : a.item_id = item_id

\* Mutant of sql_delete_hospital: the foreign key declared ON DELETE CASCADE.
sql_delete_hospital_cascade(db, hid) ==
    Some([db EXCEPT
            !.hospitals = [h \in DOMAIN db.hospitals \ {hid} |-> db.hospitals[h]],
            !.allocations = {a \in db.allocations : a.hospital_id # hid}])

\* DELETE FROM hospitals WHERE id=? : NULL when the foreign key refuses it,
\* else the tables without that row.
sql_delete_hospital(db, hid) ==
    IF hospital_referenced(db.allocations, hid) THEN NULL
    ELSE Some([db EXCEPT !.hospitals =
                 [h \in DOMAIN db.hospitals \ {hid} |-> db.hospitals[h]]])

\* DELETE FROM items WHERE id=? : NULL when the foreign key refuses it,
\* else the tables without that row.
sql_delete_item(db, item_id) ==
    IF item_referenced(db.allocations, item_id) THEN NULL
    ELSE Some([db EXCEPT !.items =
                 [i \in DOMAIN db.items \ {item_id} |-> db.items[i]]])

\* A refused statement raises out of the handler before its commit; the
\* statement itself has no effect and the handler calls no rollback.
add_hospital(name) ==
    /\ IF name_taken(hospitals, name)
       THEN /\ Leave(View, committed)
            /\ nextHospitalId' = nextHospitalId
            /\ last' = Call("add_hospital", 0, 0, "IntegrityError", 0)
       ELSE LET work == [View EXCEPT !.hospitals = @ @@ (nextHospitalId :> name)]
            IN /\ nextHospitalId' = nextHospitalId + 1
               /\ Leave(work, commit(work, committed))
               /\ last' = Call("add_hospital", 0, 0, "ok", 0)
    /\ UNCHANGED <<nextItemId, nextAllocId, initial_qty>>

delete_hospital(hid) ==
    /\ LET done == sql_delete_hospital(View, hid)
       IN IF done = NULL
          THEN /\ Leave(View, committed)
               /\ last' = CallHospital("delete_hospital", hid, "IntegrityError")
          ELSE /\ Leave(Val(done), commit(Val(done), committed))
               /\ last' = CallHospital("delete_hospital", hid, "ok")
    /\ UNCHANGED <<nextHospitalId, nextItemId, nextAllocId, initial_qty>>

----------------------------------------------------------------------------
(* Item operations *)

\* "qty or 0": None and 0 both give 0, any other integer is kept.
qty_or_zero(qty) == IF qty = NULL THEN 0 ELSE Val(qty)

\* UPDATE items SET ..., price=? WHERE id=?
sql_update_item(its, item_id, price) ==
    IF item_id \in DOMAIN its THEN [its EXCEPT ![item_id].price = price] ELSE its

\* Mutant of sql_set_stock: an upsert, the row is made when it is missing.
sql_set_stock_upsert(its, item_id, qty) ==
    [i \in DOMAIN its \cup {item_id} |->
        IF i = item_id THEN [price |-> NULL, qty |-> qty] ELSE its[i]]

\* UPDATE items SET qty=? WHERE id=?
sql_set_stock(its, item_id, qty) ==
    IF item_id \in DOMAIN its THEN [its EXCEPT ![item_id].qty = qty] ELSE its

add_item(price, qty) ==
    /\ nextItemId' = nextItemId + 1
    /\ LET row == [price |-> price, qty |-> qty_or_zero(qty)]
           work == [View EXCEPT !.items = @ @@ (nextItemId :> row)]
       IN /\ Leave(work, commit(work, committed))
          /\ last' = Call("add_item", nextItemId, 0, "ok", 0)
    /\ UNCHANGED <<nextHospitalId, nextAllocId, initial_qty>>

update_item(item_id, price) ==
    /\ LET work == [View EXCEPT !.items = sql_update_item(items, item_id, price)]
       IN Leave(work, commit(work, committed))
    /\ last' = Call("update_item", item_id, 0, "ok", 0)
    /\ UNCHANGED <<nextHospitalId, nextItemId, nextAllocId, initial_qty>>

set_stock(item_id, qty) ==
    /\ LET work == [View EXCEPT !.items = sql_set_stock(items, item_id, qty)]
       IN Leave(work, commit(work, committed))
    /\ last' = Call("set_stock", item_id, 0, "ok", 0)
    /\ UNCHANGED <<nextHospitalId, nextItemId, nextAllocId, initial_qty>>

delete_item(item_id) ==
    /\ LET done == sql_delete_item(View, item_id)
       IN IF done = NULL
          THEN /\ Leave(View, committed)
               /\ last' = Call("delete_item", item_id, 0, "IntegrityError", 0)
          ELSE /\ Leave(Val(done), commit(Val(done), committed))
               /\ last' = Call("delete_item", item_id, 0, "ok", 0)
    /\ UNCHANGED <<nextHospitalId, nextItemId, nextAllocId, initial_qty>>

\* App.edit_selected_item: the dialog's result r carries the price and the
\* qty typed by the user; qty is int(text), or 0 for an empty field, and is
\* never None, so set_stock always follows update_item.
edit_selected_item(iid, price, qty) ==
    /\ IF iid \notin DOMAIN items
       THEN /\ Leave(View, committed)
            /\ last' = Call("edit_selected_item", iid, 0, "Item not found", 0)
       ELSE LET w1 == [View EXCEPT !.items = sql_update_item(items, iid, price)]
                c1 == commit(w1, committed)
                w2 == [w1 EXCEPT !.items = sql_set_stock(w1.items, iid, qty)]
            IN /\ Leave(w2, commit(w2, c1))
               /\ last' = Call("edit_selected_item", iid, 0, "ok", 0)
    /\ UNCHANGED <<nextHospitalId, nextItemId, nextAllocId, initial_qty>>

----------------------------------------------------------------------------
(* Allocation *)

\* SELECT qty, price FROM items WHERE id=? ; cur.fetchone()
fetch_item(its, item_id) ==
    IF item_id \in DOMAIN its THEN Some(its[item_id]) ELSE NULL

\* Mutant of recorded_price: the item's price is never looked at.
recorded_price_override_only(price_at_alloc, current_price) == price_at_alloc

\* Mutant of recorded_price: "if not price_at_alloc", which also takes an
\* override of 0 for no override.
recorded_price_falsy(price_at_alloc, current_price) ==
    IF price_at_alloc = NULL \/ price_at_alloc = Some(0)
    THEN current_price ELSE price_at_alloc

\* price_at_alloc = the override unless it is None, else the item's price
recorded_price(price_at_alloc, current_price) ==
    IF price_at_alloc = NULL THEN current_price ELSE price_at_alloc

\* Mutant of invalid_quantity: "if qty < 0", which lets zero through.
invalid_quantity_negative_only(qty) == qty < 0

\* Mutant of invalid_quantity: the check is missing.
invalid_quantity_unchecked(qty) == FALSE

\* if qty <= 0: raise ValueError("Quantity must be > 0")
invalid_quantity(qty) == qty <= 0

\* Mutant of not_enough_stock: off by one, one unit too many is let through.
not_enough_stock_off_by_one(qty, avail) == qty > avail + 1

\* Mutant of not_enough_stock: "if qty >= avail", the last unit cannot go.
not_enough_stock_at_equal(qty, avail) == qty >= avail

\* if qty > avail: raise ValueError("Not enough stock (available=...)")
not_enough_stock(qty, avail) == qty > avail

\* Mutant of allocate_check: the quantity is checked before the row.
allocate_check_quantity_first(row, qty) ==
    IF qty <= 0 THEN "Quantity must be > 0"
    ELSE IF row = NULL THEN "Item not found"
    ELSE IF qty > Val(row).qty THEN "Not enough stock"
    ELSE "ok"

\* The checks of allocate in the order the code makes them.
allocate_check(row, qty) ==
    IF row = NULL THEN "Item not found"
    ELSE IF invalid_quantity(qty) THEN "Quantity must be > 0"
    ELSE IF not_enough_stock(qty, Val(row).qty) THEN "Not enough stock"
    ELSE "ok"

\* Mutant of sql_decrement_stock: the WHERE clause is missing.
sql_decrement_all(its, item_id, qty) ==
    [i \in DOMAIN its |-> [its[i] EXCEPT !.qty = @ - qty]]

\* Mutant of sql_decrement_stock: the UPDATE is missing.
sql_decrement_none(its, item_id, qty) == its

\* UPDATE items SET qty = qty - ? WHERE id=?
sql_decrement_stock(its, item_id, qty) ==
    IF item_id \in DOMAIN its THEN [its EXCEPT ![item_id].qty = @ - qty] ELSE its

\* INSERT INTO allocations (hospital_id, item_id, qty, price_at_alloc, ts)
sql_insert_allocation(allocs, id, hospital_id, item_id, qty, price, ts) ==
    allocs \cup {[id |-> id, hospital_id |-> hospital_id, item_id |-> item_id,
                  qty |-> qty, price_at_alloc |-> price, ts |-> ts]}

\* The two foreign keys of allocations, checked by the INSERT.
insert_refused(db, hospital_id, item_id) ==
    hospital_id \notin DOMAIN db.hospitals \/ item_id \notin DOMAIN db.items

\* now is datetime.now(): no earlier than any timestamp already recorded.
allocate(item_id, hospital_id, qty, price_at_alloc, now) ==
    LET row == fetch_item(items, item_id)
        check == allocate_check(row, qty)
    IN IF check # "ok"
       THEN /\ Leave(rollback(View, committed), committed)
            /\ last' = CallAllocate(item_id, hospital_id, qty, price_at_alloc, check,
                            IF check = "Not enough stock" THEN Val(row).qty ELSE 0)
            /\ UNCHANGED <<nextHospitalId, nextItemId, nextAllocId, initial_qty>>
       ELSE LET price == recorded_price(price_at_alloc, Val(row).price)
                w1 == [View EXCEPT !.items = sql_decrement_stock(items, item_id, qty)]
                w2 == [w1 EXCEPT !.allocations =
                          sql_insert_allocation(allocations, nextAllocId, hospital_id,
                                                item_id, qty, price, now)]
            IN /\ \A a \in allocations : a.ts <= now
               /\ IF insert_refused(w1, hospital_id, item_id)
                  THEN /\ Leave(rollback(w1, committed), committed)
                       /\ nextAllocId' = nextAllocId
                       /\ last' = CallAllocate(item_id, hospital_id, qty, price_at_alloc,
                                               "IntegrityError", 0)
                  ELSE /\ nextAllocId' = nextAllocId + 1
                       /\ Leave(w2, commit(w2, committed))
                       /\ last' = CallAllocate(item_id, hospital_id, qty, price_at_alloc,
                                               "ok", 0)
               /\ UNCHANGED <<nextHospitalId, nextItemId, initial_qty>>

----------------------------------------------------------------------------------------------------------------------------------------------------
(* The ledger: every operation, from the state Database.__init__ leaves.  *)
(* The identity counters bound the exploration, not the operations.       *)

Next ==
    \/ \E name \in HospitalNameArgs :
          /\ name_taken(hospitals, name) \/ nextHospitalId <= MaxHospitalId
          /\ add_hospital(name)
    \/ \E hid \in HospitalIdArgs : delete_hospital(hid)
    \/ \E price \in PriceArgs, qty \in {NULL} \cup {Some(q) : q \in QtyArgs} :
          /\ nextItemId <= MaxItemId
          /\ add_item(price, qty)
    \/ \E item_id \in ItemIdArgs, price \in PriceArgs : update_item(item_id, price)
    \/ \E item_id \in ItemIdArgs, qty \in QtyArgs : set_stock(item_id, qty)
    \/ \E item_id \in ItemIdArgs : delete_item(item_id)
    \/ \E iid \in ItemIdArgs, price \in PriceArgs, qty \in QtyArgs :
          edit_selected_item(iid, price, qty)
    \/ \E item_id \in ItemIdArgs, hospital_id \in HospitalIdArgs,
          qty \in AllocQtyArgs, price \in PriceArgs, now \in TimeVals :
          /\ nextAllocId <= MaxAllocId
          /\ allocate(item_id, hospital_id, qty, price, now)

Spec == Init /\ [][Next]_vars

----------------------------------------------------------------------------
(* Sequences of allocate calls: from any items table that add_item can    *)
(* have built, nothing but allocate.  The stock bounds the sequences.     *)

InitAlloc ==
    /\ hospitals = ensure_schema.hospitals
    /\ items \in [ItemIds -> [price : PriceArgs, qty : QtyArgs]]
    /\ allocations = {}
    /\ committed = Tables(hospitals, items, allocations)
    /\ nextHospitalId = Len(default_hospitals) + 1
    /\ nextItemId = MaxItemId + 1
    /\ nextAllocId = 1
    /\ last = Call("init", 0, 0, "ok", 0)
    /\ initial_qty = [i \in ItemIds |-> items[i].qty]

NextAlloc ==
    \E item_id \in ItemIdArgs, hospital_id \in HospitalIdArgs,
       qty \in AllocQtyArgs, price \in PriceArgs, now \in TimeVals :
       allocate(item_id, hospital_id, qty, price, now)

SpecAlloc == InitAlloc /\ [][NextAlloc]_vars

TypeOK ==
    /\ DOMAIN hospitals \subseteq 1..MaxHospitalId
    /\ DOMAIN items \subseteq ItemIds
    /\ \A i \in DOMAIN items : items[i].price \in PriceArgs /\ items[i].qty \in Int
    /\ \A a \in allocations : a.ts \in TimeVals /\ a.qty \in Int

----------------------------------------------------------------------------
(* The reporting query *)

\* "if hospital_id:" : None counts as no filter, and so does 0.
truthy(x) == x # NULL /\ Val(x) # 0

\* FROM allocations a JOIN hospitals h ON a.hospital_id=h.id
\*                    JOIN items i ON a.item_id=i.id
report_join(db) ==
    {a \in db.allocations :
        a.hospital_id \in DOMAIN db.hospitals /\ a.item_id \in DOMAIN db.items}

\* Mutant of report_where: "a.ts < ?" for the upper bound.
report_where_exclusive_to(a, hospital_id, date_from, date_to) ==
    /\ truthy(hospital_id) => a.hospital_id = Val(hospital_id)
    /\ date_from # NULL => a.ts >= Val(date_from)
    /\ date_to # NULL => a.ts < Val(date_to)

\* WHERE h.id = ? AND a.ts >= ? AND a.ts <= ? , each clause only when its
\* argument is given.
report_where(a, hospital_id, date_from, date_to) ==
    /\ truthy(hospital_id) => a.hospital_id = Val(hospital_id)
    /\ date_from # NULL => a.ts >= Val(date_from)
    /\ date_to # NULL => a.ts <= Val(date_to)

\* SELECT a.id, h.name, ..., a.qty, a.price_at_alloc, a.ts
report_row(db, a) ==
    [id |-> a.id, hospital |-> db.hospitals[a.hospital_id], item_id |-> a.item_id,
     qty |-> a.qty, price_at_alloc |-> a.price_at_alloc, ts |-> a.ts]

\* ORDER BY a.ts ASC: every order of the rows in which ts never decreases;
\* the store returns one of them (rows of equal ts come in any order).
order_by_ts(S) ==
    {q \in [1..Cardinality(S) -> S] :
        /\ \A j, k \in 1..Cardinality(S) : j # k => q[j] # q[k]
        /\ \A j, k \in 1..Cardinality(S) : j < k => q[j].ts <= q[k].ts}

\* What the caller of fetch_allocations_for_report saw: its arguments and the
\* rows it was returned.
CallReport(hospital_id, date_from, date_to, rows) ==
    [op |-> "fetch_allocations_for_report", item_id |-> 0, hospital_id |-> 0,
     qty |-> 0, price |-> NULL, result |-> "ok", avail |-> 0,
     filter |-> [hospital_id |-> hospital_id, date_from |-> date_from,
                 date_to |-> date_to],
     rows |-> rows]

fetch_allocations_for_report(hospital_id, date_from, date_to) ==
    LET selected == {a \in report_join(View) :
                        report_where(a, hospital_id, date_from, date_to)}
    IN /\ \E q \in order_by_ts(selected) :
             last' = CallReport(hospital_id, date_from, date_to,
                                [k \in 1..Cardinality(selected) |-> report_row(View, q[k])])
       /\ Leave(View, committed)
       /\ UNCHANGED <<nextHospitalId, nextItemId, nextAllocId, initial_qty>>

\* Reports over any allocation table the ledger can hold: rows numbered in
\* the order of their timestamps, of two hospitals.

ReportHospitalIds == {1, 2}
ReportHospitalArgs == {NULL} \cup {Some(h) : h \in ReportHospitalIds \cup {3}}
ReportTimes == 1..MaxReportTime
ReportDateArgs == {NULL} \cup {Some(t) : t \in ReportTimes}

ReportTables ==
    UNION {
      { {[id |-> k, hospital_id |-> h[k], item_id |-> 1, qty |-> 1,
          price_at_alloc |-> NULL, ts |-> t[k]] : k \in 1..n} :
          h \in [1..n -> ReportHospitalIds],
          t \in {u \in [1..n -> ReportTimes] :
                    \A j, k \in 1..n : j < k => u[j] <= u[k]} }
      : n \in 0..MaxReportRows }

InitReport ==
    /\ hospitals = ensure_schema.hospitals
    /\ items = [i \in ItemIds |-> [price |-> NULL, qty |-> 0]]
    /\ allocations \in ReportTables
    /\ committed = Tables(hospitals, items, allocations)
    /\ nextHospitalId = Len(default_hospitals) + 1
    /\ nextItemId = MaxItemId + 1
    /\ nextAllocId = Cardinality(allocations) + 1
    /\ last = Call("init", 0, 0, "ok", 0)
    /\ initial_qty = <<>>

NextReport ==
    \E hospital_id \in ReportHospitalArgs, date_from \in ReportDateArgs,
       date_to \in ReportDateArgs :
       fetch_allocations_for_report(hospital_id, date_from, date_to)

SpecReport == InitReport /\ [][NextReport]_vars

----------------------------------------------------------------------------
(* Database.__init__ on a store that an earlier run initialised: a new     *)
(* connection, which sees the committed content, and ensure_schema again.  *)
(* The CREATE TABLE and ALTER TABLE statements find the tables and columns *)
(* there and do nothing; what is left is the seeding of the hospitals.     *)

\* Mutant of hospitals_empty: the default hospitals are inserted at every run.
hospitals_empty_ignored(hs) == TRUE

\* SELECT COUNT(*) FROM hospitals ... == 0
hospitals_empty(hs) == DOMAIN hs = {}

\* for h in default_hospitals: try INSERT except pass.  failed is the set of
\* positions of the list whose INSERT raises for a reason of the store (a
\* timeout, a lost lock, a narrower name column of an older shape); an
\* INSERT refused by UNIQUE(name) raises as well.  Either way the loop goes
\* on with the next name.
RECURSIVE seed_default_hospitals(_, _, _, _)
seed_default_hospitals(hs, next, k, failed) ==
    IF k > Len(default_hospitals) THEN [hospitals |-> hs, next |-> next]
    ELSE IF k \in failed \/ name_taken(hs, default_hospitals[k])
         THEN seed_default_hospitals(hs, next, k + 1, failed)
         ELSE seed_default_hospitals(hs @@ (next :> default_hospitals[k]),
                                     next + 1, k + 1, failed)

\* What the caller of Database(...) saw: ensure_schema returns normally
\* whatever the INSERTs did.  seeded tells whether the seeding branch ran,
\* failed which of its INSERTs raised.
CallSchema(seeded, failed) ==
    [op |-> "ensure_schema", item_id |-> 0, hospital_id |-> 0, qty |-> 0,
     price |-> NULL, result |-> "ok", avail |-> 0,
     seeded |-> seeded, failed |-> failed]

Database_init(failed) ==
    LET db == committed
        seeded == hospitals_empty(db.hospitals)
        done == IF seeded
                THEN seed_default_hospitals(db.hospitals, nextHospitalId, 1, failed)
                ELSE [hospitals |-> db.hospitals, next |-> nextHospitalId]
        work == [db EXCEPT !.hospitals = done.hospitals]
    IN /\ Leave(work, commit(work, committed))
       /\ nextHospitalId' = done.next
       /\ last' = CallSchema(seeded, IF seeded THEN failed ELSE {})
       /\ UNCHANGED <<nextItemId, nextAllocId, initial_qty>>

SchemaHospitalIdArgs == 1..(Len(default_hospitals) + 1)
SeedFailures == SUBSET (1..Len(default_hospitals))

\* The runs of the application over one store: hospitals are added and
\* deleted, and the application is started again.
InitSchema ==
    /\ hospitals = ensure_schema.hospitals
    /\ items = [i \in ItemIds |-> [price |-> NULL, qty |-> 0]]
    /\ allocations = {}
    /\ committed = Tables(hospitals, items, allocations)
    /\ nextHospitalId = Len(default_hospitals) + 1
    /\ nextItemId = MaxItemId + 1
    /\ nextAllocId = 1
    /\ last = Call("init", 0, 0, "ok", 0)
    /\ initial_qty = <<>>

NextSchema ==
    \/ \E name \in HospitalNameArgs :
          /\ name_taken(hospitals, name) \/ nextHospitalId <= MaxHospitalId
          /\ add_hospital(name)
    \/ \E hid \in SchemaHospitalIdArgs : delete_hospital(hid)
    \/ \E failed \in SeedFailures :
          /\ \/ ~hospitals_empty(committed.hospitals)
             \/ nextHospitalId <= MaxHospitalId + 1
                                    + (MaxSeedings - 1) * Len(default_hospitals)
          /\ Database_init(failed)

SpecSchema == InitSchema /\ [][NextSchema]_vars

----------------------------------------------------------------------------
(* Properties of allocate *)

\* The step is a call of allocate, and how it ended.
Allocated == last'.op = "allocate"
AllocatedOk == Allocated /\ last'.result = "ok"
AllocateFailed == Allocated /\ last'.result # "ok"
NewRows == allocations' \ allocations
TablesUnchanged ==
    hospitals' = hospitals /\ items' = items /\ allocations' = allocations

\* C1: over any sequence of allocate calls on an item, its quantity is never
\* below zero and the quantities of its allocation records sum to at most the
\* quantity it had before the first call.
C1_NeverOverAllocated ==
    \A i \in DOMAIN items :
        /\ items[i].qty >= 0
        /\ SumQty(AllocationsOf(allocations, i)) <= initial_qty[i]

\* C2: allocate is atomic.  A call that fails leaves the item quantities and
\* the allocation records as they were; nothing is left uncommitted; and the
\* committed stock of an item is decremented exactly when one matching record
\* is committed with it.
C2_AllocateAtomic ==
    [][Allocated =>
        /\ AllocateFailed => TablesUnchanged /\ committed' = committed
        /\ committed' = Tables(hospitals', items', allocations')
        /\ \A i \in DOMAIN committed.items :
              LET new == AllocationsOf(committed'.allocations, i)
                             \ committed.allocations
              IN /\ committed'.items[i].qty # committed.items[i].qty
                        <=> new # {}
                 /\ committed'.items[i].qty
                        = committed.items[i].qty - SumQty(new)
                 /\ Cardinality(new) <= 1
        /\ \A a \in committed'.allocations \ committed.allocations :
              a.item_id \in DOMAIN committed.items
      ]_vars

\* C2 witness: the INSERT was refused after the UPDATE had decremented an
\* item that earlier allocations had already drawn from.
C2_Witness ==
    /\ last.op = "allocate" /\ last.result = "IntegrityError"
    /\ last.hospital_id \notin DOMAIN hospitals
    /\ AllocationsOf(allocations, last.item_id) # {}
    /\ items[last.item_id].qty >= last.qty

\* C3: a request for more than the available quantity leaves the item
\* quantities and the allocation table unchanged.
C3_OverRequestChangesNothing ==
    [][(/\ Allocated
        /\ last'.item_id \in DOMAIN items
        /\ last'.qty > items[last'.item_id].qty)
       => items' = items /\ allocations' = allocations]_vars

\* C3 witness: one more than what is left was asked for, after an allocation.
C3_Witness ==
    /\ last.op = "allocate" /\ last.result = "Not enough stock"
    /\ last.item_id \in DOMAIN items
    /\ last.qty = items[last.item_id].qty + 1
    /\ AllocationsOf(allocations, last.item_id) # {}

\* C4: every item's stock quantity is a non-negative integer in every state.
C4_StockNonNegative ==
    \A i \in DOMAIN items : items[i].qty \in Nat

\* C5: an allocation made without an override records the item's price of
\* that moment, and no later step changes or removes a recorded allocation.
C5_PriceSnapshot ==
    [][/\ \A a \in allocations : a \in allocations'
       /\ (AllocatedOk /\ last'.price = NULL)
             => /\ NewRows # {}
                /\ \A a \in NewRows :
                      a.price_at_alloc = items[last'.item_id].price
      ]_vars

\* C5 witness: update_item changed the price of an item after an allocation
\* of it; the record still carries the old price.
C5_Witness ==
    /\ last.op = "update_item"
    /\ \E a \in allocations :
          /\ a.item_id = last.item_id
          /\ a.price_at_alloc # items[a.item_id].price

\* C6: a successful allocate records the override when one is given, 0
\* included, and otherwise the item's current price, NULL when it has none.
C6_RecordedPrice ==
    [][AllocatedOk =>
        /\ NewRows # {}
        /\ \A a \in NewRows :
              a.price_at_alloc =
                  IF last'.price # NULL THEN last'.price
                  ELSE items[last'.item_id].price
      ]_vars

\* C6 witness: an override of 0 was recorded for an item without a price.
C6_Witness ==
    /\ last.op = "allocate" /\ last.result = "ok" /\ last.price = Some(0)
    /\ items[last.item_id].price = NULL
    /\ \E a \in allocations : a.id = nextAllocId - 1 /\ a.price_at_alloc = Some(0)

\* C7: a successful allocate(item, hospital, q) lowers that item's quantity
\* by q, adds one record with that hospital, item and q, and changes no other
\* item and no earlier record.
C7_SuccessEffect ==
    [][AllocatedOk =>
        LET i == last'.item_id IN
        /\ DOMAIN items' = DOMAIN items
        /\ items'[i].qty = items[i].qty - last'.qty
        /\ items'[i].price = items[i].price
        /\ \A j \in DOMAIN items \ {i} : items'[j] = items[j]
        /\ allocations \subseteq allocations'
        /\ Cardinality(NewRows) = 1
        /\ \A a \in NewRows :
              /\ a.item_id = i
              /\ a.hospital_id = last'.hospital_id
              /\ a.qty = last'.qty
        /\ hospitals' = hospitals
      ]_vars

\* C7 witness: a second allocation of an item, with another item in stock.
C7_Witness ==
    /\ last.op = "allocate" /\ last.result = "ok"
    /\ Cardinality(AllocationsOf(allocations, last.item_id)) = 2
    /\ \E j \in DOMAIN items : j # last.item_id /\ items[j].qty > 0

\* C8: allocate on an item that does not exist fails with "Item not found",
\* whatever the quantity, and changes nothing.
C8_NotFound ==
    [][(Allocated /\ last'.item_id \notin DOMAIN items)
       => /\ last'.result = "Item not found"
          /\ TablesUnchanged /\ committed' = committed]_vars

\* C8 witness: the missing item was asked for with a negative quantity.
C8_Witness ==
    /\ last.op = "allocate" /\ last.result = "Item not found"
    /\ last.item_id \notin DOMAIN items
    /\ last.qty < 0

\* C9: allocate on an existing item with a quantity of zero or less fails
\* with "Quantity must be > 0", whatever the stock.
C9_InvalidQuantity ==
    [][(Allocated /\ last'.item_id \in DOMAIN items /\ last'.qty <= 0)
       => last'.result = "Quantity must be > 0"]_vars

\* C9 witness: zero was asked of an item whose stock is below zero, so that
\* the request also exceeds the stock.
C9_Witness ==
    /\ last.op = "allocate" /\ last.result = "Quantity must be > 0"
    /\ last.qty = 0
    /\ items[last.item_id].qty < 0

\* C10 as claimed: a positive request above the available quantity fails with
\* "Not enough stock" carrying the item's quantity, which stays; a request
\* equal to the available quantity succeeds and leaves zero.
C10_Claimed ==
    [][(Allocated /\ last'.item_id \in DOMAIN items /\ last'.qty > 0) =>
        LET i == last'.item_id IN
        /\ last'.qty > items[i].qty
              => /\ last'.result = "Not enough stock"
                 /\ last'.avail = items[i].qty
                 /\ items'[i].qty = items[i].qty
        /\ last'.qty = items[i].qty
              => last'.result = "ok" /\ items'[i].qty = 0
      ]_vars

\* C10 amended: the request equal to the available quantity succeeds when it
\* names an existing hospital.
C10_StockBoundary ==
    [][(Allocated /\ last'.item_id \in DOMAIN items /\ last'.qty > 0) =>
        LET i == last'.item_id IN
        /\ last'.qty > items[i].qty
              => /\ last'.result = "Not enough stock"
                 /\ last'.avail = items[i].qty
                 /\ items'[i].qty = items[i].qty
        /\ (last'.qty = items[i].qty /\ last'.hospital_id \in DOMAIN hospitals)
              => last'.result = "ok" /\ items'[i].qty = 0
      ]_vars

\* C10 witness: all that was left after an earlier allocation was allocated.
C10_Witness ==
    /\ last.op = "allocate" /\ last.result = "ok"
    /\ items[last.item_id].qty = 0
    /\ Cardinality(AllocationsOf(allocations, last.item_id)) = 2

----------------------------------------------------------------------------
(* Properties of the deletions *)

\* The step is a call of delete_hospital or of delete_item.
Deleted == last'.op \in {"delete_hospital", "delete_item"}

\* C11: delete_hospital and delete_item, succeeding or failing, on a
\* referenced row or not, leave the allocation table as it was.
C11_DeleteKeepsAllocations ==
    [][Deleted => allocations' = allocations /\ committed'.allocations = allocations]_vars

\* C11 witness: the deletion of a hospital that an allocation refers to
\* was asked for.
C11_Witness ==
    /\ last.op = "delete_hospital"
    /\ \E a \in allocations : a.hospital_id = last.hospital_id

\* C12: deleting a hospital (or an item) that an allocation refers to
\* succeeds: the row is gone from its table and the allocations remain,
\* still carrying the reference.
C12_ReferencedDeleteSucceeds ==
    [][/\ (/\ last'.op = "delete_hospital"
           /\ last'.hospital_id \in DOMAIN hospitals
           /\ \E a \in allocations : a.hospital_id = last'.hospital_id)
          => /\ last'.result = "ok"
             /\ last'.hospital_id \notin DOMAIN hospitals'
             /\ allocations' = allocations
       /\ (/\ last'.op = "delete_item"
           /\ last'.item_id \in DOMAIN items
           /\ \E a \in allocations : a.item_id = last'.item_id)
          => /\ last'.result = "ok"
             /\ last'.item_id \notin DOMAIN items'
             /\ allocations' = allocations
      ]_vars

----------------------------------------------------------------------------
(* Properties of the reporting query *)

\* The allocations the filter of the last report asks for.
Wanted(f) ==
    {a \in allocations :
        /\ f.hospital_id # NULL => a.hospital_id = Val(f.hospital_id)
        /\ f.date_from # NULL => Val(f.date_from) <= a.ts
        /\ f.date_to # NULL => a.ts <= Val(f.date_to)}

\* C13: the report returns exactly the allocations of the given hospital (of
\* all when none is given) with from <= ts <= to, both ends included and an
\* omitted end unbounded, by ascending timestamp; no match gives an empty
\* result without error; nothing stored changes.
C13_Report ==
    [][last'.op = "fetch_allocations_for_report" =>
        LET rows == last'.rows
            want == Wanted(last'.filter)
        IN /\ last'.result = "ok"
           /\ Len(rows) = Cardinality(want)
           /\ \A a \in want : \E k \in 1..Len(rows) :
                 /\ rows[k].id = a.id /\ rows[k].ts = a.ts /\ rows[k].qty = a.qty
                 /\ rows[k].price_at_alloc = a.price_at_alloc
                 /\ rows[k].hospital = hospitals[a.hospital_id]
           /\ \A k \in 1..(Len(rows) - 1) : rows[k].ts <= rows[k + 1].ts
           /\ TablesUnchanged /\ committed' = committed
      ]_vars

\* C13 witness: a report with a hospital and both dates given, that returns
\* rows stamped at each end of the range and leaves rows out.
C13_Witness ==
    /\ last.op = "fetch_allocations_for_report"
    /\ last.filter.hospital_id # NULL
    /\ last.filter.date_from # NULL /\ last.filter.date_to # NULL
    /\ Val(last.filter.date_from) < Val(last.filter.date_to)
    /\ \E k \in 1..Len(last.rows) : last.rows[k].ts = Val(last.filter.date_from)
    /\ \E k \in 1..Len(last.rows) : last.rows[k].ts = Val(last.filter.date_to)
    /\ \E a \in allocations : a.ts > Val(last.filter.date_to)

----------------------------------------------------------------------------
(* Properties of the stored rows *)

\* C14: every allocation record has a quantity that is a positive integer.
C14_AllocationQtyPositive ==
    \A a \in allocations : a.qty \in Nat \ {0}

\* C14 witness: an allocation is on record for an item whose stock was
\* afterwards set below zero.
C14_Witness ==
    \E a \in allocations :
        a.item_id \in DOMAIN items /\ items[a.item_id].qty < 0

\* C18: for an item that only allocate has written, its quantity plus the
\* quantities of its allocation records is its quantity before the first
\* allocate.
C18_StockConserved ==
    \A i \in DOMAIN items :
        items[i].qty + SumQty(AllocationsOf(allocations, i)) = initial_qty[i]

\* C18 witness: an item allocated in part, another allocated whole.
C18_Witness ==
    /\ \E i \in DOMAIN items :
          AllocationsOf(allocations, i) # {} /\ items[i].qty > 0
    /\ \E j \in DOMAIN items :
          AllocationsOf(allocations, j) # {} /\ items[j].qty = 0

----------------------------------------------------------------------------
(* Properties of the hospital and item operations *)

UniqueNames(hs) ==
    \A h1, h2 \in DOMAIN hs : h1 # h2 => hs[h1] # hs[h2]

\* C15: no two hospitals have the same name.  add_hospital with a name that
\* exists raises a constraint violation and leaves the hospitals as they
\* were, with nothing uncommitted; the next operation on the connection
\* takes effect and is committed.
C15_UniqueHospitalNames ==
    [][/\ UniqueNames(hospitals) /\ UniqueNames(hospitals')
       /\ last'.op = "add_hospital" =>
             \A name \in HospitalNameArgs :
                (add_hospital(name) /\ \E h \in DOMAIN hospitals : hospitals[h] = name)
                => /\ last'.result = "IntegrityError"
                   /\ TablesUnchanged /\ committed' = committed
                   /\ committed' = Tables(hospitals', items', allocations')
       /\ (last.op = "add_hospital" /\ last.result = "IntegrityError")
             => /\ (last'.op = "add_hospital" /\ last'.result = "ok")
                   => /\ Cardinality(DOMAIN hospitals') = Cardinality(DOMAIN hospitals) + 1
                      /\ committed'.hospitals = hospitals'
                /\ (last'.op = "add_item" /\ last'.result = "ok")
                   => /\ DOMAIN items' # DOMAIN items
                      /\ committed'.items = items'
      ]_vars

\* C15 witness: a hospital was added right after an add_hospital that was
\* refused for its name: the new hospital is there and the refused name is
\* there once.
C15_Witness ==
    /\ last.op = "add_hospital" /\ last.result = "IntegrityError"
    /\ \E h \in DOMAIN hospitals : hospitals[h] = "New hospital"
    /\ Cardinality({h \in DOMAIN hospitals : hospitals[h] = default_hospitals[1]}) = 1

\* C19: set_stock, update_item, delete_item and delete_hospital called with
\* an id that no row has report no error and leave every table unchanged.
C19_MissingIdIsSilent ==
    [][(\/ /\ last'.op \in {"set_stock", "update_item", "delete_item"}
           /\ last'.item_id \notin DOMAIN items
        \/ /\ last'.op = "delete_hospital"
           /\ last'.hospital_id \notin DOMAIN hospitals)
       => /\ last'.result = "ok"
          /\ TablesUnchanged
          /\ committed' = Tables(hospitals, items, allocations)
      ]_vars

\* C19 witness: set_stock was called for an id that no item has, while
\* other items are there.
C19_Witness ==
    /\ last.op = "set_stock" /\ last.result = "ok"
    /\ last.item_id \notin DOMAIN items
    /\ DOMAIN items # {}

----------------------------------------------------------------------------
(* Properties of ensure_schema *)

Restarted == last'.op = "ensure_schema"

\* C17 as claimed: ensure_schema on a store it has initialised changes
\* nothing.
C17_Claimed ==
    [][Restarted => TablesUnchanged /\ committed' = committed]_vars

\* C17: ensure_schema on an initialised store whose hospitals table holds a
\* row changes nothing; a run that changes the store found the hospitals
\* table empty, and adds nothing but default hospitals, each once, and no
\* item or allocation.
C17_SeedOnlyWhenEmpty ==
    [][Restarted =>
          /\ hospitals # <<>> => TablesUnchanged /\ committed' = committed
          /\ ~TablesUnchanged =>
                /\ hospitals = <<>>
                /\ last'.seeded
                /\ \A h \in DOMAIN hospitals' :
                      \E k \in 1..Len(default_hospitals) :
                         hospitals'[h] = default_hospitals[k]
                /\ UniqueNames(hospitals')
                /\ items' = items /\ allocations' = allocations
                /\ committed' = Tables(hospitals', items', allocations')
      ]_vars

\* C17 witness: the application was started again on a store that holds
\* some of its hospitals, not all, and the seeding did not run.
C17_Witness ==
    /\ last.op = "ensure_schema" /\ ~last.seeded
    /\ hospitals # <<>>
    /\ Cardinality(DOMAIN hospitals) < Len(default_hospitals)
    /\ DOMAIN items # {}

\* C16: an operation that fails surfaces an error to its caller, and the
\* committed content after it is the content before it; in particular the
\* seeding of ensure_schema, when one of its INSERTs fails.
C16_FailuresSurface ==
    [][/\ last'.result # "ok" =>
             /\ committed' = committed
             /\ committed' = Tables(hospitals', items', allocations')
       /\ (Restarted /\ last'.failed # {}) =>
             /\ last'.result # "ok"
             /\ committed' = committed
      ]_vars

====
